---- MODULE Spec2Model ----
(***************************************************************************)
(* Model of avian-3d-kcc: the fixed-step scheduler (src/src/schedule.rs),  *)
(* the per-tick systems and debug stepping (src/src/main.rs) and the       *)
(* sweep-and-slide character mover (src/src/character_controller.rs).      *)
(*                                                                         *)
(* Numbers.  Durations are integer microseconds.  Lengths are fixed-point  *)
(* integers, LenScale per world unit; velocities are lengths per second;   *)
(* unit vectors (directions, normals) are fixed-point with UnitScale = 1.0.*)
(* Every f32 operation is rounded to the nearest fixed-point value.        *)
(***************************************************************************)
EXTENDS Integers, Sequences, FiniteSets, TLC

VARIABLES
    enabled,             \* CustomStepping.enabled
    playback,            \* Cli.playback.is_some()
    overstep,            \* Time<CustomTime>.context().overstep
    elapsed,             \* Time<CustomTime>.elapsed()
    delta,               \* Time<CustomTime>.delta()
    frame_count,         \* FrameCount.0
    recorded_velocities, \* RecordedVelocities.0
    velocity,            \* CharacterController.velocity
    translation,         \* Transform.translation of the character
    trail,               \* history: one entry per run of the CustomMain schedule
    keyboard,            \* ButtonInput<KeyCode> of the current frame
    phase,               \* position in the frame: "frame", "update", "last", "exited"
    toggled,             \* toggle_system_stepping has run in this frame's Update
    stepped,             \* step has run in this frame's Update
    frames,              \* frames started so far
    out_file,            \* contents of out.ron, or NoFile
    log                  \* history: one entry per scheduler call

vars == <<enabled, playback, overstep, elapsed, delta, frame_count,
          recorded_velocities, velocity, translation, trail, keyboard,
          phase, toggled, stepped, frames, out_file, log>>

(***************************************************************************)
(* Bounds of the model.                                                    *)
(***************************************************************************)
MaxFrames == 3

MaxMoverTicks == 2

MaxStepTicks == 3

MaxTripFrames == 2

\* Time<Virtual>::delta() of a frame: a fast frame, and a slow one of two timesteps
Deltas == {10000, 31250}

(***************************************************************************)
(* Program constants.                                                      *)
(***************************************************************************)
Timestep == 15625

MAX_BOUNCES == 5

\* fixed-point steps per world unit: makes SKIN_WIDTH and 15.0 / 64 whole numbers
LenScale == 200 * 8

\* fixed-point value of 1.0 for the components of unit vectors
UnitScale == 10 * 100

MicrosPerSecond == 1000 * 1000

\* SKIN_WIDTH = 0.005
SKIN_WIDTH == (5 * LenScale) \div 1000

\* PLAYER_SPEED = 15.0
PLAYER_SPEED == 15 * LenScale

\* the 0.01 of the anti-jitter nudge
Nudge == (1 * LenScale) \div 100

\* the 0.99 of the near-parallel test, on the scale of a dot of two unit vectors
NearParallel == (99 * UnitScale * UnitScale) \div 100

NoFile == "none"

(***************************************************************************)
(* Fixed-point arithmetic.                                                 *)
(***************************************************************************)
Max(a, b) == IF a >= b THEN a ELSE b

\* a / b rounded to nearest, symmetric about zero (b > 0)
RDiv(a, b) == IF a >= 0 THEN (2 * a + b) \div (2 * b)
              ELSE -((2 * (-a) + b) \div (2 * b))

RECURSIVE ISqrtB(_, _, _)
ISqrtB(s, lo, hi) ==
    IF lo >= hi THEN lo
    ELSE LET mid == (lo + hi + 1) \div 2
         IN  IF mid * mid <= s THEN ISqrtB(s, mid, hi) ELSE ISqrtB(s, lo, mid - 1)

\* floor of the square root
ISqrt(s) == ISqrtB(s, 0, 46340)

\* r = floor(sqrt(s)) rounded up when s is nearer to (r + 1)^2
RoundRoot(s, r) == IF s - r * r > r THEN r + 1 ELSE r

\* square root rounded to nearest
RSqrt(s) == RoundRoot(s, ISqrt(s))

Zero == <<0, 0, 0>>

Add(a, b) == <<a[1] + b[1], a[2] + b[2], a[3] + b[3]>>

Sub(a, b) == <<a[1] - b[1], a[2] - b[2], a[3] - b[3]>>

\* raw dot product: the product of the two arguments' scales
Dot(a, b) == a[1] * b[1] + a[2] * b[2] + a[3] * b[3]

\* Vec3::length
Length(v) == RSqrt(Dot(v, v))

\* unit vector (UnitScale) times a scalar
Scale(u, s) == <<RDiv(u[1] * s, UnitScale), RDiv(u[2] * s, UnitScale),
                 RDiv(u[3] * s, UnitScale)>>

\* mutant: a vector that cannot be normalized falls back to the x axis
NormalizedOrX(v, l) ==
    IF l = 0 THEN [ok |-> TRUE, dir |-> <<UnitScale, 0, 0>>]
    ELSE [ok |-> TRUE,
          dir |-> <<RDiv(v[1] * UnitScale, l), RDiv(v[2] * UnitScale, l),
                    RDiv(v[3] * UnitScale, l)>>]

\* v / l as a unit vector, l = |v|; Err for a vector that cannot be normalized
Normalized(v, l) ==
    IF l = 0 THEN [ok |-> FALSE, dir |-> Zero]
    ELSE [ok |-> TRUE,
          dir |-> <<RDiv(v[1] * UnitScale, l), RDiv(v[2] * UnitScale, l),
                    RDiv(v[3] * UnitScale, l)>>]

\* Dir3::new
Dir3New(v) == Normalized(v, Length(v))

\* Vec3::normalize_or_zero
NormalizeOrZero(v) == Dir3New(v).dir

(***************************************************************************)
(* The static scene (setup_level) as seen by a sweep of the character's    *)
(* cylinder (radius 0.5): each wall is the face of a cuboid moved outward  *)
(* by the cylinder's radius, kept as a half-space.  sd(p) = n.p - off is   *)
(* the free distance of the cylinder's centre p from the face.             *)
(*   WallX: cuboid(2, 5, 10) at (15, 2.5, 0); its face x = 14.             *)
(*   WallS: cuboid(10, 5, 2) at (-15, 2.5, 0) turned 15 degrees about y;   *)
(*          its end face, normal (cos 15, 0, -sin 15), 5 from the centre.  *)
(***************************************************************************)
WallX == [n |-> <<-UnitScale, 0, 0>>, off |-> -((27 * LenScale) \div 2)]

WallS == [n |-> <<966, 0, -259>>, off |-> -((8989 * LenScale) \div 1000)]

Walls == {WallX, WallS}

\* signed distance of point p to wall w, in length units (>= 0 on the free side)
SignedDist(w, p) == RDiv(Dot(w.n, p), UnitScale) - w.off

NoHit == [some |-> FALSE, time_of_impact |-> 0, normal1 |-> Zero]

\* The sweep of the character against one wall.  With ignore_origin_penetration
\* (the `true` of the call) a start inside the wall is a hit at distance 0 only
\* when the sweep moves further in.
HitAt(w, toi, max_distance) ==
    IF toi <= max_distance
    THEN [some |-> TRUE, time_of_impact |-> toi, normal1 |-> w.n]
    ELSE NoHit

\* sd: the free distance to the wall; approach: the closing speed per unit swept
CastWallAt(w, sd, approach, max_distance) ==
    IF approach <= 0 THEN NoHit
    ELSE HitAt(w, IF sd <= 0 THEN 0 ELSE RDiv(sd * UnitScale, approach), max_distance)

CastWall(w, origin, direction, max_distance) ==
    CastWallAt(w, SignedDist(w, origin), RDiv(-Dot(direction, w.n), UnitScale),
               max_distance)

Nearest(hits) ==
    IF hits = {} THEN NoHit
    ELSE CHOOSE h \in hits : \A g \in hits : h.time_of_impact <= g.time_of_impact

\* SpatialQuery::cast_shape: the nearest hit within max_distance, if any
CastShape(origin, direction, max_distance) ==
    Nearest({h \in {CastWall(w, origin, direction, max_distance) : w \in Walls} : h.some})

(***************************************************************************)
(* move_character_controllers, for the one character of the scene.         *)
(* The loop state s: translation, direction_result (ok, dir), distance,    *)
(* planes, bounce_count, hit_count, done (the loop has hit a break), and   *)
(* sweeps, the log of what each iteration swept and moved (the gizmo ray   *)
(* and sphere of the code).                                                *)
(***************************************************************************)
\* the anti-jitter loop over the recorded planes
RECURSIVE NudgeAll(_, _, _, _)
NudgeAll(projected_velocity, normal1, planes, i) ==
    IF i > Len(planes) THEN projected_velocity
    ELSE NudgeAll(IF Dot(normal1, planes[i]) > NearParallel
                  THEN Add(projected_velocity, Scale(normal1, Nudge))
                  ELSE projected_velocity,
                  normal1, planes, i + 1)

SweepEntry(s, hit, moved) ==
    [direction |-> s.dir, distance |-> s.distance, hit |-> hit.some,
     time_of_impact |-> hit.time_of_impact, normal1 |-> hit.normal1,
     moved |-> moved, from |-> s.translation]

\* lines 107-123: the leftover motion projected on the hit surface; s is the
\* loop state after the advance to the contact
Redirected(s, hit, nudged) ==
    [s EXCEPT !.planes = Append(@, hit.normal1),
              !.ok = Dir3New(nudged).ok, !.dir = Dir3New(nudged).dir,
              !.distance = Length(nudged)]

Slide(s, hit, projected_velocity, start_direction) ==
    IF Dot(projected_velocity, start_direction) <= 0
    THEN [s EXCEPT !.done = TRUE]
    ELSE Redirected(s, hit, NudgeAll(projected_velocity, hit.normal1, s.planes, 1))

Project(extra_velocity, normal1) ==
    Sub(extra_velocity,
        Scale(normal1, RDiv(Dot(extra_velocity, normal1), UnitScale)))

\* lines 100-105: a hit nearer than the distance left
Blocked(s, hit, moved, start_direction) ==
    Slide([s EXCEPT !.hit_count = @ + 1,
                    !.translation = Add(@, Scale(s.dir, moved)),
                    !.sweeps = Append(@, SweepEntry(s, hit, moved))],
          hit,
          Project(Scale(s.dir, s.distance - Max(hit.time_of_impact - SKIN_WIDTH, 0)),
                  hit.normal1),
          start_direction)

\* mutant: the skin width added where it is to be taken off
ReachedPastContact(s, hit, clamped) ==
    [s EXCEPT !.hit_count = @ + 1,
              !.translation = Add(@, Scale(s.dir, hit.time_of_impact + SKIN_WIDTH)),
              !.sweeps = Append(@, SweepEntry(s, hit, hit.time_of_impact + SKIN_WIDTH)),
              !.done = TRUE]

\* lines 94-98: a hit at or beyond the distance left
Reached(s, hit, clamped) ==
    [s EXCEPT !.hit_count = @ + 1,
              !.translation = Add(@, Scale(s.dir, clamped)),
              !.sweeps = Append(@, SweepEntry(s, hit, clamped)),
              !.done = TRUE]

\* mutant: a hit nearer than the distance left is passed through
SweptThroughContact(s, hit, start_direction) ==
    IF ~hit.some \/ hit.time_of_impact < s.distance
    THEN [s EXCEPT !.translation = Add(@, Scale(s.dir, s.distance)),
                   !.sweeps = Append(@, SweepEntry(s, hit, s.distance)),
                   !.done = TRUE]
    ELSE [s EXCEPT !.hit_count = @ + 1,
                   !.translation =
                       Add(@, Scale(s.dir, Max(hit.time_of_impact - SKIN_WIDTH, 0))),
                   !.sweeps = Append(@, SweepEntry(s, hit,
                                               Max(hit.time_of_impact - SKIN_WIDTH, 0))),
                   !.done = TRUE]

\* mutant: an advance to the contact shorter than the skin width is left out
SweptSkippingShortAdvance(s, hit, start_direction) ==
    IF ~hit.some
    THEN [s EXCEPT !.translation = Add(@, Scale(s.dir, s.distance)),
                   !.sweeps = Append(@, SweepEntry(s, hit, s.distance)),
                   !.done = TRUE]
    ELSE IF hit.time_of_impact >= s.distance
         THEN Reached(s, hit, Max(hit.time_of_impact - SKIN_WIDTH, 0))
         ELSE Blocked(s, hit,
                      IF hit.time_of_impact - SKIN_WIDTH >= SKIN_WIDTH
                      THEN hit.time_of_impact - SKIN_WIDTH ELSE 0,
                      start_direction)

\* lines 124-126: no hit
Unobstructed(s, hit) ==
    [s EXCEPT !.translation = Add(@, Scale(s.dir, s.distance)),
              !.sweeps = Append(@, SweepEntry(s, hit, s.distance)),
              !.done = TRUE]

Swept(s, hit, start_direction) ==
    IF ~hit.some THEN Unobstructed(s, hit)
    ELSE IF hit.time_of_impact >= s.distance
         THEN Reached(s, hit, Max(hit.time_of_impact - SKIN_WIDTH, 0))
         ELSE Blocked(s, hit,
                      IF hit.time_of_impact >= SKIN_WIDTH
                      THEN hit.time_of_impact - SKIN_WIDTH ELSE 0,
                      start_direction)

Counted(s, start_direction) ==
    IF ~s.ok THEN [s EXCEPT !.done = TRUE]
    ELSE Swept(s, CastShape(s.translation, s.dir, s.distance + SKIN_WIDTH),
               start_direction)

\* one pass through the body of `for _ in 0..MAX_BOUNCES`
Bounce(s, start_direction) ==
    Counted([s EXCEPT !.bounce_count = @ + 1], start_direction)

\* mutant: the loop allowed one pass more
RECURSIVE SlideLoopOneMore(_, _, _)
SlideLoopOneMore(s, start_direction, i) ==
    IF i >= MAX_BOUNCES + 1 \/ s.done THEN s
    ELSE SlideLoopOneMore(Bounce(s, start_direction), start_direction, i + 1)

RECURSIVE SlideLoop(_, _, _)
SlideLoop(s, start_direction, i) ==
    IF i >= MAX_BOUNCES \/ s.done THEN s
    ELSE SlideLoop(Bounce(s, start_direction), start_direction, i + 1)

\* time.delta_seconds() times the speed
TickDistance(v, dt) == RDiv(Length(v) * dt, MicrosPerSecond)

\* The mover for a character at position p with velocity v, Time::delta() = dt.
MoveFrom(s0) == IF ~s0.ok THEN s0 ELSE SlideLoop(s0, s0.dir, 0)

MoveWith(p, direction_result, distance) ==
    MoveFrom([translation |-> p, ok |-> direction_result.ok,
              dir |-> direction_result.dir, distance |-> distance,
              planes |-> <<>>, bounce_count |-> 0, hit_count |-> 0,
              done |-> FALSE, sweeps |-> <<>>])

MoveCharacterController(p, v, dt) == MoveWith(p, Dir3New(v), TickDistance(v, dt))

(***************************************************************************)
(* The world as the systems of one tick see it.                            *)
(***************************************************************************)
World == [overstep |-> overstep, elapsed |-> elapsed, delta |-> delta,
          frame_count |-> frame_count, recorded_velocities |-> recorded_velocities,
          velocity |-> velocity, translation |-> translation, trail |-> trail]

NoKeys == [T |-> FALSE, R |-> FALSE, move |-> {}]

\* increment_frame
IncrementFrame(w) == [w EXCEPT !.frame_count = @ + 1]

\* the W, A, S, D tests of set_velocity; the camera is never turned (yaw = 0),
\* so camera_rotation.mul_vec3 leaves the direction as it is
MoveDirection(kb) ==
    <<(IF "D" \in kb.move THEN UnitScale ELSE 0) - (IF "A" \in kb.move THEN UnitScale ELSE 0),
      0,
      (IF "S" \in kb.move THEN UnitScale ELSE 0) - (IF "W" \in kb.move THEN UnitScale ELSE 0)>>

\* mutant: the sample stored under the index the tick started with
SampledBeforeIncrement(w, v) ==
    [w EXCEPT !.velocity = v,
              !.recorded_velocities =
                  [k \in DOMAIN @ \cup {w.frame_count - 1} |->
                      IF k = w.frame_count - 1 THEN v ELSE @[k]]]

\* set_velocity
\* lines 275-280: the sampled velocity v is set and recorded
Sampled(w, v) ==
    [w EXCEPT !.velocity = v,
              !.recorded_velocities =
                  [k \in DOMAIN @ \cup {w.frame_count} |->
                      IF k = w.frame_count THEN v ELSE @[k]]]

\* mutant: a tick without an entry in the recording stops the body
SetVelocityStoppingOnMissing(w, kb) ==
    IF playback
    THEN IF w.frame_count \notin DOMAIN w.recorded_velocities
         THEN [w EXCEPT !.velocity = Zero]
         ELSE [w EXCEPT !.velocity = w.recorded_velocities[w.frame_count]]
    ELSE Sampled(w, Scale(NormalizeOrZero(MoveDirection(kb)), PLAYER_SPEED))

\* mutant: the velocity of the tick is recorded in replay mode too
SetVelocityRecordingReplay(w, kb) ==
    IF playback
    THEN Sampled(w, IF w.frame_count \notin DOMAIN w.recorded_velocities
                    THEN w.velocity
                    ELSE w.recorded_velocities[w.frame_count])
    ELSE Sampled(w, Scale(NormalizeOrZero(MoveDirection(kb)), PLAYER_SPEED))

SetVelocity(w, kb) ==
    IF playback
    THEN IF w.frame_count \notin DOMAIN w.recorded_velocities THEN w
         ELSE [w EXCEPT !.velocity = w.recorded_velocities[w.frame_count]]
    ELSE Sampled(w, Scale(NormalizeOrZero(MoveDirection(kb)), PLAYER_SPEED))

\* move_character_controllers, with time = the generic Time resource; m is
\* the outcome of the loop for the character
Moved(w, m) == [w EXCEPT !.translation = m.translation]

MoveCharacterControllers(w, time_delta) ==
    Moved(w, MoveCharacterController(w.translation, w.velocity, time_delta))

\* run_custom_main: CustomPreUpdate (increment_frame, set_velocity chained),
\* then CustomPostUpdate (move_character_controllers).  `by` names the caller
\* ("drain" or "step") for the trail.
TrailEntry(w, w1, m, time_delta, by) ==
    [by |-> by, frame |-> w1.frame_count, time_delta |-> time_delta,
     elapsed |-> w1.elapsed,
     velocity_before |-> w.velocity, velocity |-> w1.velocity,
     from |-> w.translation, to |-> m.translation,
     sweeps |-> m.sweeps, bounce_count |-> m.bounce_count,
     hit_count |-> m.hit_count]

PostUpdate(w, w1, m, time_delta, by) ==
    [Moved(w1, m) EXCEPT !.trail = Append(@, TrailEntry(w, w1, m, time_delta, by))]

\* mutant: the mover run on the velocity the tick started with
PreUpdatedMoverFirst(w, w1, time_delta, by) ==
    PostUpdate(w, w1, MoveCharacterController(w.translation, w.velocity, time_delta),
               time_delta, by)

PreUpdated(w, w1, time_delta, by) ==
    PostUpdate(w, w1, MoveCharacterController(w1.translation, w1.velocity, time_delta),
               time_delta, by)

RunCustomMain(w, kb, time_delta, by) ==
    PreUpdated(w, SetVelocity(IncrementFrame(w), kb), time_delta, by)

\* mutant: the subtraction refused when it would leave nothing
ExpendCustomStrict(w) ==
    IF w.overstep > Timestep
    THEN [ok |-> TRUE,
          w |-> [w EXCEPT !.overstep = @ - Timestep,
                          !.elapsed = @ + Timestep,
                          !.delta = Timestep]]
    ELSE [ok |-> FALSE, w |-> w]

\* mutant: the simulation clock is not advanced
ExpendCustomNoAdvance(w) ==
    IF w.overstep >= Timestep
    THEN [ok |-> TRUE, w |-> [w EXCEPT !.overstep = @ - Timestep, !.delta = Timestep]]
    ELSE [ok |-> FALSE, w |-> w]

\* expend_custom: checked_sub of the timestep, then advance_by(timestep)
ExpendCustom(w) ==
    IF w.overstep >= Timestep
    THEN [ok |-> TRUE,
          w |-> [w EXCEPT !.overstep = @ - Timestep,
                          !.elapsed = @ + Timestep,
                          !.delta = Timestep]]
    ELSE [ok |-> FALSE, w |-> w]

\* mutant: an `if` in place of the `while`
DrainLoopOnce(w, kb) ==
    IF ExpendCustom(w).ok
    THEN RunCustomMain(ExpendCustom(w).w, kb, ExpendCustom(w).w.delta, "drain")
    ELSE w

\* while expend_custom(..) { Time = Time<CustomTime>.as_generic(); schedule.run(world) }
RECURSIVE DrainLoop(_, _)
DrainLoop(w, kb) ==
    IF ExpendCustom(w).ok
    THEN DrainLoop(RunCustomMain(ExpendCustom(w).w, kb, ExpendCustom(w).w.delta,
                                 "drain"), kb)
    ELSE w

\* mutant: no early return when stepping is enabled
RunCustomScheduleAlways(w, stepping, kb, virtual_delta) ==
    DrainLoop([w EXCEPT !.overstep = @ + virtual_delta], kb)

\* mutant: the early return placed after the accumulation
RunCustomScheduleAccumulating(w, stepping, kb, virtual_delta) ==
    IF stepping THEN [w EXCEPT !.overstep = @ + virtual_delta]
    ELSE DrainLoop([w EXCEPT !.overstep = @ + virtual_delta], kb)

\* mutant: the T key of the frame read by the scheduler itself
RunCustomScheduleSeeingToggle(w, stepping, kb, virtual_delta) ==
    IF stepping # kb.T THEN w
    ELSE DrainLoop([w EXCEPT !.overstep = @ + virtual_delta], kb)

\* run_custom_schedule, with Time<Virtual>::delta() = virtual_delta
RunCustomScheduleOn(w, stepping, kb, virtual_delta) ==
    IF stepping THEN w
    ELSE DrainLoop([w EXCEPT !.overstep = @ + virtual_delta], kb)

\* mutant: the single tick paid for out of the overstep, as a drained tick is
StepCustomScheduleExpending(w, kb) ==
    RunCustomMain(ExpendCustom(w).w, kb, ExpendCustom(w).w.delta, "step")

\* step_custom_schedule
StepCustomSchedule(w, kb) == RunCustomMain(w, kb, w.delta, "step")

\* ron::ser::to_string_pretty of the map: its entries
Serialize(map) == {<<k, map[k]>> : k \in DOMAIN map}

\* ron::de::from_str
Deserialize(file) == [k \in {e[1] : e \in file} |-> (CHOOSE e \in file : e[1] = k)[2]]

(***************************************************************************)
(* Inputs of the model.                                                    *)
(***************************************************************************)
\* the movement keys held during a frame of a live session
MoveKeys == {{}, {"W", "D"}}

\* replay files: (tick index, velocity) entries
RecordingA == {<<1, <<15 * LenScale, 0, 0>>>>, <<2, Zero>>}

RecordingB == {<<2, <<9 * LenScale, 0, 12 * LenScale>>>>}

Recordings == {RecordingA, RecordingB}

\* setup_character: Transform::from_xyz(0.0, 1.0, 0.0)
StartTranslation == <<0, LenScale, 0>>

EmptyMap == [k \in {} |-> Zero]

(***************************************************************************)
(* The application: state after construction, then one action per system.  *)
(***************************************************************************)
Init ==
    /\ playback \in BOOLEAN
    /\ enabled = playback
    /\ recorded_velocities \in
          IF playback THEN {Deserialize(f) : f \in Recordings} ELSE {EmptyMap}
    /\ overstep = 0
    /\ elapsed = 0
    /\ delta = 0
    /\ frame_count = 0
    /\ velocity = Zero
    /\ translation = StartTranslation
    /\ trail = <<>>
    /\ keyboard = NoKeys
    /\ phase = "frame"
    /\ toggled = FALSE
    /\ stepped = FALSE
    /\ frames = 0
    /\ out_file = NoFile
    /\ log = <<>>

SetWorld(w) ==
    /\ overstep' = w.overstep
    /\ elapsed' = w.elapsed
    /\ delta' = w.delta
    /\ frame_count' = w.frame_count
    /\ recorded_velocities' = w.recorded_velocities
    /\ velocity' = w.velocity
    /\ translation' = w.translation
    /\ trail' = w.trail

\* history of a scheduler call that leaves the world as w
LogEntry(op, w, virtual_delta) ==
    [op |-> op, mode |-> enabled, virtual_delta |-> virtual_delta,
     before |-> overstep, after |-> w.overstep,
     elapsed_before |-> elapsed, elapsed_after |-> w.elapsed,
     ticks |-> Len(w.trail) - Len(trail)]

Commit(w, op, virtual_delta, logged) ==
    /\ SetWorld(w)
    /\ log' = IF logged THEN Append(log, LogEntry(op, w, virtual_delta)) ELSE log

\* A frame begins: the time and input systems set Time<Virtual>::delta() and the
\* keyboard state, then the RunCustomSchedule schedule runs run_custom_schedule.
RunCustomSchedule(virtual_delta, kb) ==
    /\ phase = "frame"
    /\ frames < MaxFrames
    /\ Commit(RunCustomScheduleOn(World, enabled, kb, virtual_delta), "run",
              virtual_delta, TRUE)
    /\ keyboard' = kb
    /\ frames' = frames + 1
    /\ phase' = "update"
    /\ toggled' = FALSE
    /\ stepped' = FALSE
    /\ UNCHANGED <<enabled, playback, out_file>>

AfterUpdate(other_done) == IF other_done THEN "last" ELSE "update"

\* toggle_system_stepping (Update)
ToggleSystemStepping ==
    /\ phase = "update"
    /\ ~toggled
    /\ enabled' = IF keyboard.T THEN ~enabled ELSE enabled
    /\ log' = IF keyboard.T THEN Append(log, LogEntry("toggle", World, 0)) ELSE log
    /\ toggled' = TRUE
    /\ phase' = AfterUpdate(stepped)
    /\ UNCHANGED <<playback, overstep, elapsed, delta, frame_count,
                   recorded_velocities, velocity, translation, trail, keyboard,
                   stepped, frames, out_file>>

\* step (Update)
Step ==
    /\ phase = "update"
    /\ ~stepped
    /\ Commit(IF keyboard.R THEN StepCustomSchedule(World, keyboard) ELSE World,
              "step", 0, keyboard.R)
    /\ stepped' = TRUE
    /\ phase' = AfterUpdate(toggled)
    /\ UNCHANGED <<enabled, playback, keyboard, toggled, frames, out_file>>

\* serialize_captured_input_on_exit (Last); exit: an AppExit event was sent
SerializeCapturedInputOnExit(exit) ==
    /\ phase = "last"
    /\ out_file' = IF exit /\ ~playback THEN Serialize(recorded_velocities) ELSE out_file
    /\ phase' = IF exit THEN "exited" ELSE "frame"
    /\ UNCHANGED <<enabled, playback, overstep, elapsed, delta, frame_count,
                   recorded_velocities, velocity, translation, trail, keyboard,
                   toggled, stepped, frames, log>>

FrameInputs ==
    {[T |-> t, R |-> r, move |-> m] : t \in BOOLEAN, r \in BOOLEAN, m \in MoveKeys}

Next ==
    \/ \E d \in Deltas, kb \in FrameInputs :
          /\ (playback => kb.move = {})
          /\ RunCustomSchedule(d, kb)
    \/ ToggleSystemStepping
    \/ Step
    \/ \E exit \in BOOLEAN : SerializeCapturedInputOnExit(exit)

Spec == Init /\ [][Next]_vars

(***************************************************************************)
(* The mover on its own: a character placed at one of StartPositions, with *)
(* the tick's Time::delta() at the timestep, is moved tick after tick with *)
(* a velocity drawn from MoverVelocities.                                  *)
(***************************************************************************)
\* the start, 0.2 and 0.2375 before WallX, inside its skin, before WallS, in
\* the wedge where WallX and WallS meet, deep in that wedge, and inside the skin
\* of WallS
StartPositions ==
    {StartTranslation,
     <<21280, LenScale, 0>>, <<21220, LenScale, 0>>, <<21596, LenScale, 0>>,
     <<-14648, LenScale, 0>>, <<21500, LenScale, 135300>>,
     <<21540, LenScale, 135796>>, <<-14887, LenScale, 0>>}

\* at rest, along and against x, along z, oblique, straight at WallS, grazing
\* WallS, and two slow ones (0.625 per second) along z and against x
MoverVelocities ==
    {Zero, <<PLAYER_SPEED, 0, 0>>, <<-PLAYER_SPEED, 0, 0>>, <<0, 0, PLAYER_SPEED>>,
     <<9 * LenScale, 0, 12 * LenScale>>, <<-966 * 24, 0, 259 * 24>>,
     <<-10727, 0, -21472>>, <<0, 0, 1000>>, <<-1000, 0, 0>>}

InitMover ==
    /\ playback = TRUE
    /\ enabled = TRUE
    /\ recorded_velocities = EmptyMap
    /\ overstep = 0
    /\ elapsed = Timestep
    /\ delta = Timestep
    /\ frame_count = 0
    /\ velocity \in MoverVelocities
    /\ translation \in StartPositions
    /\ trail = <<>>
    /\ keyboard = NoKeys
    /\ phase = "mover"
    /\ toggled = FALSE
    /\ stepped = FALSE
    /\ frames = 0
    /\ out_file = NoFile
    /\ log = <<>>

\* one tick with the velocity set to v: CustomPreUpdate's outcome, then the mover
MoverTick(v) ==
    /\ phase = "mover"
    /\ frame_count < MaxMoverTicks
    /\ SetWorld(PreUpdated(World, [IncrementFrame(World) EXCEPT !.velocity = v],
                           delta, "mover"))
    /\ UNCHANGED <<enabled, playback, keyboard, phase, toggled, stepped, frames,
                   out_file, log>>

NextMover == \E v \in MoverVelocities : MoverTick(v)

SpecMover == InitMover /\ [][NextMover]_vars

(***************************************************************************)
(* step_custom_schedule on its own: the clock starts with any overstep of  *)
(* StepOversteps, and every frame brings one advance request.              *)
(***************************************************************************)
StepOversteps == {0, 10000, Timestep, 2 * Timestep + 10000}

InitStep ==
    /\ playback \in BOOLEAN
    /\ enabled = TRUE
    /\ recorded_velocities \in
          IF playback THEN {Deserialize(f) : f \in Recordings} ELSE {EmptyMap}
    /\ overstep \in StepOversteps
    /\ elapsed = 0
    /\ delta \in {0, Timestep}
    /\ frame_count = 0
    /\ velocity = Zero
    /\ translation = StartTranslation
    /\ trail = <<>>
    /\ keyboard = NoKeys
    /\ phase = "step"
    /\ toggled = FALSE
    /\ stepped = FALSE
    /\ frames = 0
    /\ out_file = NoFile
    /\ log = <<>>

\* a frame whose R key was just pressed: step calls step_custom_schedule
StepRequest(kb) ==
    /\ phase = "step"
    /\ frame_count < MaxStepTicks
    /\ Commit(StepCustomSchedule(World, kb), "step", 0, TRUE)
    /\ keyboard' = kb
    /\ frames' = frames + 1
    /\ UNCHANGED <<enabled, playback, phase, toggled, stepped, out_file>>

NextStep ==
    \E kb \in FrameInputs : kb.R /\ ~kb.T /\ (playback => kb.move = {}) /\ StepRequest(kb)

SpecStep == InitStep /\ [][NextStep]_vars

(***************************************************************************)
(* Record and replay: a live session of up to MaxTripFrames frames exits   *)
(* and writes out.ron; the program is then launched again with             *)
(* `-p out.ron` and runs a replay session of up to MaxTripFrames frames.   *)
(* trail and log run on over both sessions, a "launch" entry of the log    *)
(* marking where the second one starts.                                    *)
(***************************************************************************)
InitRoundTrip ==
    /\ Init
    /\ playback = FALSE

\* main, run again with the file of the session that has exited as playback;
\* a live session that has exited has written the file
Relaunch ==
    /\ phase = "exited"
    /\ ~playback
    /\ playback' = TRUE
    /\ enabled' = TRUE
    /\ recorded_velocities' = Deserialize(out_file)
    /\ overstep' = 0
    /\ elapsed' = 0
    /\ delta' = 0
    /\ frame_count' = 0
    /\ velocity' = Zero
    /\ translation' = StartTranslation
    /\ keyboard' = NoKeys
    /\ phase' = "frame"
    /\ toggled' = FALSE
    /\ stepped' = FALSE
    /\ frames' = 0
    /\ log' = Append(log, LogEntry("launch", World, 0))
    /\ UNCHANGED <<trail, out_file>>

\* a frame of either session
TripFrame(virtual_delta, kb) ==
    /\ frames < MaxTripFrames
    /\ RunCustomSchedule(virtual_delta, kb)

NextRoundTrip ==
    \/ \E d \in Deltas, kb \in FrameInputs :
          /\ (playback => kb.move = {})
          /\ TripFrame(d, kb)
    \/ ToggleSystemStepping
    \/ Step
    \/ \E exit \in BOOLEAN : SerializeCapturedInputOnExit(exit)
    \/ Relaunch

SpecRoundTrip == InitRoundTrip /\ [][NextRoundTrip]_vars

(***************************************************************************)
(* Properties.                                                             *)
(***************************************************************************)
LogIndex == 1..Len(log)

TrailIndex == 1..Len(trail)

IsRun(i) == log[i].op = "run"

\* the run_custom_schedule calls of the history
RunIndex == {i \in LogIndex : IsRun(i)}

RECURSIVE SumRuns(_, _, _)
\* the sum of field f ("ticks" or "virtual_delta") over the run_custom_schedule
\* calls among log[i..j]
SumRuns(f, i, j) ==
    IF i > j THEN 0
    ELSE (IF IsRun(i) THEN log[i][f] ELSE 0) + SumRuns(f, i + 1, j)

\* log[i..j] holds no run_custom_schedule call made in SinglePulse mode
FreeRunningStretch(i, j) == \A k \in i..j : IsRun(k) => ~log[k].mode

(* C1: over any stretch of frames all run in FreeRunning mode (from call i   *)
(* of run_custom_schedule to call j), starting with overstep_0 and with      *)
(* frame deltas summing to T, the CustomMain schedule is run                  *)
(* floor((T + overstep_0) / 15625) times and the final overstep is            *)
(* (T + overstep_0) mod 15625: the same for every split of T into frames.     *)
C1_TicksAndOverstep ==
    \A i \in RunIndex : \A j \in {k \in RunIndex : k >= i} :
        FreeRunningStretch(i, j) =>
            LET total == SumRuns("virtual_delta", i, j) + log[i].before
            IN  /\ SumRuns("ticks", i, j) = total \div Timestep
                /\ log[j].after = total % Timestep

\* two or more FreeRunning frames in a row, the first starting with a non-zero overstep,
\* that ran at least three ticks and ended on a non-zero overstep
C1_Witness ==
    \E i \in RunIndex : \E j \in {k \in RunIndex : k >= i} :
        /\ FreeRunningStretch(i, j)
        /\ Cardinality({k \in i..j : IsRun(k)}) >= 2
        /\ log[i].before > 0
        /\ SumRuns("ticks", i, j) >= 3
        /\ log[j].after > 0

(* C2: starting from overstep = 0, after any interleaving of frames, mode     *)
(* toggles and single-tick advances, 0 <= overstep < 15625 whenever           *)
(* run_custom_schedule has returned.                                          *)
C2_OverstepBelowTimestep ==
    /\ 0 <= overstep /\ overstep < Timestep
    /\ \A i \in LogIndex : IsRun(i) => 0 <= log[i].after /\ log[i].after < Timestep

\* a drain of two ticks that left a remainder, after a toggle and a single-tick advance
C2_Witness ==
    \E i, j, k \in LogIndex :
        /\ i < k /\ j < k
        /\ log[i].op = "toggle" /\ log[j].op = "step"
        /\ IsRun(k) /\ log[k].ticks >= 2 /\ log[k].after > 0

(* C3: while the mode is SinglePulse, run_custom_schedule runs no tick,       *)
(* whatever time has elapsed, and each advance request runs the tick schedule *)
(* exactly once: ticks executed = advance requests.                           *)
C3_PulseTicksAreRequests ==
    /\ \A i \in LogIndex : (IsRun(i) /\ log[i].mode) => log[i].ticks = 0
    /\ \A i \in LogIndex : (log[i].op = "step" /\ log[i].mode) => log[i].ticks = 1
    /\ Len(trail) = SumRuns("ticks", 1, Len(log))
                      + Cardinality({i \in LogIndex : log[i].op = "step"})

\* SinglePulse frames of two timesteps each, with two advance requests among them
C3_Witness ==
    /\ Cardinality({i \in LogIndex : IsRun(i) /\ log[i].mode
                                     /\ log[i].virtual_delta >= 2 * Timestep}) >= 2
    /\ Cardinality({i \in LogIndex : log[i].op = "step" /\ log[i].mode}) >= 2

(* C4: a single-tick advance (step_custom_schedule) leaves overstep exactly   *)
(* as it was, for every overstep, at or above the timestep included.          *)
C4_StepKeepsOverstep ==
    \A i \in LogIndex : log[i].op = "step" => log[i].after = log[i].before

\* a single-tick advance made with two timesteps and more of overstep
C4_Witness ==
    \E i \in LogIndex :
        log[i].op = "step" /\ log[i].before >= 2 * Timestep /\ log[i].ticks = 1

\* the run_custom_schedule calls before j from which on every call up to j was
\* made in SinglePulse mode: not empty when call j follows a SinglePulse period
PulseRunsBefore(j) ==
    {k \in 1..(j - 1) : IsRun(k) /\ \A m \in k..(j - 1) : IsRun(m) => log[m].mode}

\* call j is the first FreeRunning run_custom_schedule call after a SinglePulse period
FirstFreeAfterPulse(j) == IsRun(j) /\ ~log[j].mode /\ PulseRunsBefore(j) # {}

\* the first frame of the SinglePulse period before call j: overstep is at its
\* start what it was at the switch, since a toggle does not write it
PulseStart(j) == CHOOSE k \in PulseRunsBefore(j) : \A m \in PulseRunsBefore(j) : k <= m

C6_RequestOnlyInPulse ==
    \A i \in LogIndex : (log[i].op = "step" /\ ~log[i].mode) => log[i].ticks = 0

DrainTicksUpTo(i) == Cardinality({k \in 1..i : trail[k].by = "drain"})

(* C7: each tick run by the drain loop sees the simulation clock advanced by  *)
(* exactly one timestep, so the clock's elapsed time is 15625 times the       *)
(* number of drain-loop ticks; a single-tick advance leaves it unchanged.     *)
C7_ElapsedCountsDrainTicks ==
    /\ elapsed = Timestep * DrainTicksUpTo(Len(trail))
    /\ \A i \in TrailIndex :
          /\ trail[i].elapsed = Timestep * DrainTicksUpTo(i)
          /\ trail[i].by = "drain" => trail[i].time_delta = Timestep
    /\ \A i \in LogIndex :
          log[i].op = "step" => log[i].elapsed_after = log[i].elapsed_before

\* a single-tick advance between drained ticks, two or more of them in all
C7_Witness ==
    /\ elapsed >= 2 * Timestep
    /\ \E i, j, k \in TrailIndex :
          /\ i < j /\ j < k
          /\ trail[i].by = "drain" /\ trail[j].by = "step" /\ trail[k].by = "drain"

\* the tick moved a body with a non-zero velocity and its one sweep hit nothing
StraightTick(e) ==
    /\ e.velocity # Zero
    /\ Len(e.sweeps) = 1
    /\ ~e.sweeps[1].hit

(* C8: in every executed tick, run by the drain loop or by a single-tick      *)
(* advance (also one made before any drain-loop tick has run), a body with a  *)
(* non-zero velocity whose sweep reports no hit is translated by exactly      *)
(* |velocity| * 15625 microseconds along its velocity.                        *)
C8_StraightLineDistance ==
    \A i \in TrailIndex :
        StraightTick(trail[i]) =>
            Sub(trail[i].to, trail[i].from)
               = Scale(Dir3New(trail[i].velocity).dir,
                       TickDistance(trail[i].velocity, Timestep))

(* C9: a body whose velocity is the zero vector is where it was after any     *)
(* number of ticks: the mover makes no sweep and no translation for it,       *)
(* whatever geometry surrounds it.                                            *)
C9_ZeroVelocityStays ==
    \A i \in TrailIndex :
        trail[i].velocity = Zero =>
            /\ trail[i].to = trail[i].from
            /\ trail[i].sweeps = <<>>
            /\ trail[i].hit_count = 0

\* two ticks with zero velocity in a row, the body inside the skin of a wall
C9_Witness ==
    /\ Len(trail) >= 2
    /\ \A i \in TrailIndex : trail[i].velocity = Zero
    /\ \E w \in Walls : SignedDist(w, translation) < SKIN_WIDTH

\* where the body stood after sweep k of tick entry e
AfterSweep(e, k) == IF k < Len(e.sweeps) THEN e.sweeps[k + 1].from ELSE e.to

\* the translation of sweep k of tick entry e along the sweep's direction, on the
\* scale of a length times UnitScale
Along(e, k) == Dot(Sub(AfterSweep(e, k), e.sweeps[k].from), e.sweeps[k].direction)

(* C10: in every iteration of every tick the translation along the sweep      *)
(* direction is no longer than the free distance the sweep reports            *)
(* (time_of_impact on a hit, less than distance + skin width on none), and a  *)
(* body that starts a tick not penetrating a wall does not penetrate it at    *)
(* the end of the tick.                                                       *)
C10_NeverIntoGeometry ==
    \A i \in TrailIndex :
        /\ \A k \in 1..Len(trail[i].sweeps) :
              IF trail[i].sweeps[k].hit
              THEN Along(trail[i], k) <= trail[i].sweeps[k].time_of_impact * UnitScale
              ELSE Along(trail[i], k)
                      < (trail[i].sweeps[k].distance + SKIN_WIDTH) * UnitScale
        /\ \A w \in Walls :
              SignedDist(w, trail[i].from) >= 0 => SignedDist(w, trail[i].to) >= 0

\* a tick that advanced to a blocking contact and slid on, and a tick stopped by
\* a hit at or beyond the distance left
C10_Witness ==
    /\ \E i \in TrailIndex :
          /\ Len(trail[i].sweeps) >= 2
          /\ trail[i].sweeps[1].hit
          /\ trail[i].sweeps[1].moved > 0
          /\ trail[i].to # AfterSweep(trail[i], 1)
    /\ \E i \in TrailIndex : \E k \in 1..Len(trail[i].sweeps) :
          /\ trail[i].sweeps[k].hit
          /\ trail[i].sweeps[k].time_of_impact >= trail[i].sweeps[k].distance
          /\ trail[i].sweeps[k].moved > 0

Neg(v) == <<-v[1], -v[2], -v[3]>>

\* tick entry e moved the body straight at wall w, which was nearer than the
\* requested distance and the first thing in its way
HeadOn(e, w) ==
    /\ Len(e.sweeps) >= 1
    /\ e.sweeps[1].direction = Neg(w.n)
    /\ e.sweeps[1].hit
    /\ e.sweeps[1].normal1 = w.n
    /\ SignedDist(w, e.from) >= 0
    /\ e.sweeps[1].distance > SignedDist(w, e.from)

SameVelocity(i, j) == \A k \in i..j : trail[k].velocity = trail[i].velocity

(* C11: a body moving head-on into a flat wall nearer than the requested      *)
(* distance ends the tick with a gap to the wall of at least 0 and at most    *)
(* SKIN_WIDTH (up to one unit of the fixed-point grid, the rounding of the    *)
(* translation), and is at that position after every later tick run with the *)
(* same velocity.                                                             *)
C11_HeadOnStopsInSkin ==
    \A w \in Walls : \A i \in TrailIndex :
        HeadOn(trail[i], w) =>
            /\ SignedDist(w, trail[i].to) >= 0
            /\ SignedDist(w, trail[i].to) <= SKIN_WIDTH + 1
            /\ \A j \in i..Len(trail) :
                  SameVelocity(i, j) => trail[j].to = trail[i].to

\* a head-on tick that moved the body up to the wall, followed by a tick with
\* the same velocity
C11_Witness ==
    \E w \in Walls : \E i \in TrailIndex :
        /\ HeadOn(trail[i], w)
        /\ trail[i].to # trail[i].from
        /\ i < Len(trail)
        /\ SameVelocity(i, i + 1)

\* the translation applied by sweep k of tick entry e
SweepStep(e, k) == Scale(e.sweeps[k].direction, e.sweeps[k].moved)

\* the loop of tick entry e ran out of passes without reaching a break
CapReached(e) ==
    /\ e.bounce_count = MAX_BOUNCES
    /\ ~MoveCharacterController(e.from, e.velocity, e.time_delta).done

(* C12: in every tick the slide loop ends after at most 5 passes              *)
(* (bounce_count <= 5, at most 5 sweep queries, whatever they return), and    *)
(* the body is left where the translations of the sweeps made so far have     *)
(* taken it, also when the cap is reached.                                    *)
C12_SlideLoopCapped ==
    \A i \in TrailIndex :
        /\ trail[i].bounce_count <= MAX_BOUNCES
        /\ Len(trail[i].sweeps) <= trail[i].bounce_count
        /\ trail[i].hit_count <= Len(trail[i].sweeps)
        /\ IF trail[i].sweeps = <<>> THEN trail[i].to = trail[i].from
           ELSE trail[i].sweeps[1].from = trail[i].from
        /\ \A k \in 1..Len(trail[i].sweeps) :
              AfterSweep(trail[i], k) = Add(trail[i].sweeps[k].from, SweepStep(trail[i], k))

\* a tick in the wedge whose five sweeps all hit, that moved the body and ran
\* out of passes
C12_Witness ==
    \E i \in TrailIndex :
        /\ CapReached(trail[i])
        /\ trail[i].hit_count = MAX_BOUNCES
        /\ trail[i].to # trail[i].from

\* what the rounding of a tick's translations to the fixed-point grid can add to
\* a length: less than one unit for each of its sweeps
RoundingSlack == MAX_BOUNCES

\* the squared distance between the positions before and after tick entry e
Displacement2(e) == Dot(Sub(e.to, e.from), Sub(e.to, e.from))

(* C13: in every tick the distance between the body's position after the tick *)
(* and its position before it is at most the requested distance               *)
(* |desired_velocity| * tick_duration (up to the rounding of the fixed-point   *)
(* grid), for every sequence of hits, those that add the anti-jitter nudge to *)
(* the projected velocity included.                                           *)
C13_NoOvershoot ==
    \A i \in TrailIndex :
        Displacement2(trail[i])
           <= (TickDistance(trail[i].velocity, trail[i].time_delta) + RoundingSlack)
                 * (TickDistance(trail[i].velocity, trail[i].time_delta) + RoundingSlack)

(* C19: within one tick every translation applied in any iteration has a      *)
(* non-negative component along start_direction (up to one unit of the        *)
(* fixed-point grid), iterations whose direction comes from a projected       *)
(* velocity that received the anti-jitter nudge included.                     *)
C19_NeverBackward ==
    \A i \in TrailIndex : \A k \in 1..Len(trail[i].sweeps) :
        Dot(Sub(AfterSweep(trail[i], k), trail[i].sweeps[k].from),
            trail[i].sweeps[1].direction) >= -UnitScale

\* sweep k of tick entry e met a blocking contact: a hit nearer than the distance left
BlockingContact(e, k) ==
    /\ e.sweeps[k].hit
    /\ e.sweeps[k].time_of_impact < e.sweeps[k].distance

\* sweep k of tick entry e translated the body by d along the sweep's direction
AdvancedBy(e, k, d) ==
    AfterSweep(e, k) = Add(e.sweeps[k].from, Scale(e.sweeps[k].direction, d))

(* C18 as stated: on a blocking contact the body is advanced by               *)
(* direction * max(time_of_impact - skin_width, 0) only if that value is at   *)
(* least skin_width; for a smaller value the position is not changed in that  *)
(* iteration.                                                                 *)
C18_AsStated ==
    \A i \in TrailIndex : \A k \in 1..Len(trail[i].sweeps) :
        BlockingContact(trail[i], k) =>
            IF Max(trail[i].sweeps[k].time_of_impact - SKIN_WIDTH, 0) >= SKIN_WIDTH
            THEN AdvancedBy(trail[i], k,
                            Max(trail[i].sweeps[k].time_of_impact - SKIN_WIDTH, 0))
            ELSE AfterSweep(trail[i], k) = trail[i].sweeps[k].from

(* C18 amended: on a blocking contact the body is advanced by                 *)
(* direction * (time_of_impact - skin_width) whenever time_of_impact is at    *)
(* least skin_width, however short that advance is; only for a                *)
(* time_of_impact below skin_width is the position not changed in that        *)
(* iteration.                                                                 *)
C18_AdvanceFromSkinWidth ==
    \A i \in TrailIndex : \A k \in 1..Len(trail[i].sweeps) :
        BlockingContact(trail[i], k) =>
            IF trail[i].sweeps[k].time_of_impact >= SKIN_WIDTH
            THEN AdvancedBy(trail[i], k, trail[i].sweeps[k].time_of_impact - SKIN_WIDTH)
            ELSE AfterSweep(trail[i], k) = trail[i].sweeps[k].from

\* a blocking contact between one and two skin widths away that moved the body,
\* and one nearer than the skin width that left it in place
C18_Witness ==
    /\ \E i \in TrailIndex : \E k \in 1..Len(trail[i].sweeps) :
          /\ BlockingContact(trail[i], k)
          /\ trail[i].sweeps[k].time_of_impact > SKIN_WIDTH
          /\ trail[i].sweeps[k].time_of_impact < 2 * SKIN_WIDTH
          /\ AfterSweep(trail[i], k) # trail[i].sweeps[k].from
    /\ \E i \in TrailIndex : \E k \in 1..Len(trail[i].sweeps) :
          /\ BlockingContact(trail[i], k)
          /\ trail[i].sweeps[k].time_of_impact > 0
          /\ trail[i].sweeps[k].time_of_impact < SKIN_WIDTH
          /\ AfterSweep(trail[i], k) = trail[i].sweeps[k].from

(* C15: in replay mode, a tick whose index has no entry in the recording      *)
(* leaves the desired velocity as it was at the end of the previous tick, and *)
(* a tick whose index has an entry sets the velocity to exactly that entry.   *)
C15_MissingEntryKeepsVelocity ==
    playback =>
        \A i \in TrailIndex :
            /\ trail[i].velocity =
                  IF trail[i].frame \in DOMAIN recorded_velocities
                  THEN recorded_velocities[trail[i].frame]
                  ELSE trail[i].velocity_before
            /\ trail[i].velocity_before = IF i = 1 THEN Zero ELSE trail[i - 1].velocity

\* a replay whose tick 2 took a non-zero velocity from the recording and whose
\* tick 3, without an entry, kept it
C15_Witness ==
    /\ playback
    /\ \E i \in TrailIndex :
          /\ i > 1
          /\ trail[i].frame \notin DOMAIN recorded_velocities
          /\ trail[i - 1].frame \in DOMAIN recorded_velocities
          /\ trail[i].velocity # Zero
          /\ trail[i].velocity = trail[i - 1].velocity

\* one step of a replay session keeps the recording and writes no file; a live
\* session that has exited has written its recording
RecordingKept ==
    /\ playback => /\ recorded_velocities' = recorded_velocities
                   /\ out_file' = NoFile
    /\ (~playback /\ phase' = "exited") => out_file' = Serialize(recorded_velocities')

(* C16: in replay mode no tick modifies the recorded-input mapping and the    *)
(* recording is not written at session end; in a live session the recording   *)
(* is written at session end.                                                 *)
C16_ReplayKeepsRecording == [][RecordingKept]_vars

\* a replay session that ran three ticks and has exited
C16_Witness ==
    /\ playback
    /\ phase = "exited"
    /\ Len(trail) >= 3
    /\ out_file = NoFile

(* C17 as stated: the tick index starts at 0 and increases by exactly 1 per   *)
(* executed tick, so in a live session the velocity sampled in the k-th       *)
(* executed tick is recorded under key k - 1 and after N ticks the keys of    *)
(* the recording are exactly 0 .. N-1.                                        *)
C17_AsStated ==
    /\ frame_count = Len(trail)
    /\ ~playback =>
          /\ DOMAIN recorded_velocities = 0..(Len(trail) - 1)
          /\ \A k \in TrailIndex :
                /\ (k - 1) \in DOMAIN recorded_velocities
                /\ recorded_velocities[k - 1] = trail[k].velocity

(* C17 amended: the tick index starts at 0 and is increased by exactly 1 at   *)
(* the start of every executed tick (drain-loop ticks and single-tick         *)
(* advances alike), before the velocity is sampled, so in a live session the  *)
(* velocity sampled in the k-th executed tick is recorded under key k and     *)
(* after N ticks the keys of the recording are exactly 1 .. N.                *)
C17_KeysFromOne ==
    /\ frame_count = Len(trail)
    /\ \A k \in TrailIndex : trail[k].frame = k
    /\ ~playback =>
          /\ DOMAIN recorded_velocities = 1..Len(trail)
          /\ \A k \in TrailIndex : recorded_velocities[k] = trail[k].velocity

\* a live session of three ticks or more, run by the drain loop and by a
\* single-tick advance, that sampled a zero and a non-zero velocity
C17_Witness ==
    /\ ~playback
    /\ Len(trail) >= 3
    /\ \E i, j \in TrailIndex :
          /\ trail[i].by = "drain" /\ trail[j].by = "step"
          /\ trail[i].velocity # trail[j].velocity

\* the mode the scheduler call log[j] must have seen: that of the launch,
\* switched once by every toggle logged before it
ModeAt(j) ==
    playback # (Cardinality({t \in 1..(j - 1) : log[t].op = "toggle"}) % 2 = 1)

(* C20: a mode toggle received during frame k leaves the ticks drained by     *)
(* frame k's scheduler call as they were decided by the mode before it, takes *)
(* effect from frame k+1 on, and leaves overstep unchanged.                   *)
C20_ToggleActsNextFrame ==
    /\ \A j \in RunIndex :
          /\ log[j].mode = ModeAt(j)
          /\ log[j].ticks = IF ModeAt(j) THEN 0
                            ELSE (log[j].before + log[j].virtual_delta) \div Timestep
    /\ \A t \in LogIndex : log[t].op = "toggle" => log[t].ticks = 0
    /\ \A t \in 1..(Len(log) - 1) : log[t + 1].before = log[t].after
    /\ Len(log) > 0 => overstep = log[Len(log)].after
    /\ enabled = ModeAt(Len(log) + 1)

\* a toggle to SinglePulse in a frame whose scheduler call had drained two
\* ticks and left some overstep: the next frame, two timesteps long, drained
\* none and found the overstep as it was left
C20_Witness ==
    \E j, t, k \in LogIndex :
        /\ j < t /\ t < k
        /\ IsRun(j) /\ log[j].ticks >= 2 /\ log[j].after > 0
        /\ log[t].op = "toggle"
        /\ IsRun(k) /\ log[k].virtual_delta >= 2 * Timestep /\ log[k].ticks = 0
        /\ RunIndex \cap (j + 1)..(k - 1) = {}
        /\ log[k].before = log[j].after

\* the log entry at which the replay session was launched, 0 in a live session
LaunchIndex ==
    IF \E i \in LogIndex : log[i].op = "launch"
    THEN CHOOSE i \in LogIndex : log[i].op = "launch"
    ELSE 0

RECURSIVE SumTicks(_)
\* the ticks run by the calls log[1..i]
SumTicks(i) == IF i = 0 THEN 0 ELSE log[i].ticks + SumTicks(i - 1)

\* the ticks of the live session: trail[1..LiveTicks], tick index k at trail[k]
LiveTicks == SumTicks(LaunchIndex)

(* C14: replaying the saved recording of a live session, with the ticks       *)
(* driven in any permitted way (single-tick advances from the initial         *)
(* SinglePulse mode, or FreeRunning after a toggle), leaves the body at each  *)
(* tick index where the live run had it at that tick index.                   *)
C14_ReplayRoundTrip ==
    LaunchIndex > 0 =>
        \A r \in TrailIndex :
            (r > LiveTicks /\ trail[r].frame <= LiveTicks) =>
                trail[r].to = trail[trail[r].frame].to

\* the velocity set_velocity has to write in tick entry e: the sample recorded
\* under the tick's index in a live session, the entry of the recording for
\* that index in a replay, the velocity left by the tick before without one
WrittenVelocity(e) ==
    IF e.frame \in DOMAIN recorded_velocities
    THEN recorded_velocities[e.frame]
    ELSE e.velocity_before

\* the mover of tick entry e worked from velocity v: no sweep for a zero
\* velocity, else a first sweep from the tick's start along v over |v| * delta
MoverRead(e, v) ==
    IF v = Zero THEN e.sweeps = <<>>
    ELSE /\ Len(e.sweeps) >= 1
         /\ e.sweeps[1].from = e.from
         /\ e.sweeps[1].direction = Dir3New(v).dir
         /\ e.sweeps[1].distance = TickDistance(v, e.time_delta)

(* C21: in every executed tick the tick index is incremented first, then the  *)
(* desired velocity is written for that index (the live sample recorded under *)
(* it, or the replay entry for it applied), then the mover moves the body     *)
(* with the velocity just written; the velocity stays as written until the    *)
(* next tick writes it.                                                       *)
C21_TickOrder ==
    /\ \A i \in TrailIndex :
          /\ trail[i].frame = (IF i = 1 THEN 0 ELSE trail[i - 1].frame) + 1
          /\ ~playback => trail[i].frame \in DOMAIN recorded_velocities
          /\ trail[i].velocity = WrittenVelocity(trail[i])
          /\ MoverRead(trail[i], trail[i].velocity)
          /\ trail[i].velocity_before = IF i = 1 THEN Zero ELSE trail[i - 1].velocity
    /\ velocity = IF trail = <<>> THEN Zero ELSE trail[Len(trail)].velocity

\* a live session with a tick that took the body from rest into motion and a
\* later tick that stopped it
C21_Witness ==
    /\ ~playback
    /\ \E i, j \in TrailIndex :
          /\ i < j
          /\ trail[i].velocity_before = Zero
          /\ trail[i].velocity # Zero
          /\ trail[i].to # trail[i].from
          /\ trail[j].velocity_before # Zero
          /\ trail[j].velocity = Zero
          /\ trail[j].to = trail[j].from

====
